---- MODULE Spec2Model ----
(***************************************************************************)
(* Model of the Redshift-type normalizer (src/src/checktable/helpers.py)   *)
(* and of the construction of CheckTable (src/src/checktable/checktable.py)*)
(*                                                                         *)
(* A Python str is a sequence of one-character strings, so that lower(),   *)
(* the regular-expression split and int() are computed character by        *)
(* character.  A Python dict is a function whose DOMAIN is its key set.    *)
(* A call either returns a value, Ok(v), or raises, Raise(exc, site, arg). *)
(***************************************************************************)
EXTENDS Integers, Sequences, FiniteSets, TLC

(***************************************************************************)
(* Bounds of the model.                                                    *)
(***************************************************************************)
\* the largest number of argument tokens an input type string carries
MaxArgs == 3

\* the largest number of argument tokens of a type string that is respelled
MaxRespellArgs == 2

\* the largest number of rows of an rsdtype file
MaxCols == 2

\* a raw data file has at most MaxRows rows
MaxRows == 2

(***************************************************************************)
(* Characters.                                                             *)
(***************************************************************************)
UpperLetters ==
  <<"A","B","C","D","E","F","G","H","I","J","K","L","M",
    "N","O","P","Q","R","S","T","U","V","W","X","Y","Z">>

LowerLetters ==
  <<"a","b","c","d","e","f","g","h","i","j","k","l","m",
    "n","o","p","q","r","s","t","u","v","w","x","y","z">>

Digits == <<"0","1","2","3","4","5","6","7","8","9">>

\* the characters the pattern r'[\(\), ]' matches
Delimiters == {"(", ")", ",", " "}

IndexOf(c, seq) == CHOOSE i \in 1..Len(seq) : seq[i] = c

IsIn(x, seq) == \E i \in 1..Len(seq) : seq[i] = x

(***************************************************************************)
(* The static tables of helpers.py.                                        *)
(***************************************************************************)
Spelling ==
  [smallint |-> <<"s","m","a","l","l","i","n","t">>,
   int2 |-> <<"i","n","t","2">>,
   integer |-> <<"i","n","t","e","g","e","r">>,
   int |-> <<"i","n","t">>,
   int4 |-> <<"i","n","t","4">>,
   bigint |-> <<"b","i","g","i","n","t">>,
   int8 |-> <<"i","n","t","8">>,
   decimal |-> <<"d","e","c","i","m","a","l">>,
   numeric |-> <<"n","u","m","e","r","i","c">>,
   real |-> <<"r","e","a","l">>,
   float4 |-> <<"f","l","o","a","t","4">>,
   double_precision |-> <<"d","o","u","b","l","e"," ","p","r","e","c","i","s","i","o","n">>,
   float8 |-> <<"f","l","o","a","t","8">>,
   float |-> <<"f","l","o","a","t">>,
   boolean |-> <<"b","o","o","l","e","a","n">>,
   bool |-> <<"b","o","o","l">>,
   char |-> <<"c","h","a","r">>,
   character |-> <<"c","h","a","r","a","c","t","e","r">>,
   nchar |-> <<"n","c","h","a","r">>,
   bpchar |-> <<"b","p","c","h","a","r">>,
   varchar |-> <<"v","a","r","c","h","a","r">>,
   character_varying |-> <<"c","h","a","r","a","c","t","e","r"," ","v","a","r","y","i","n","g">>,
   nvarchar |-> <<"n","v","a","r","c","h","a","r">>,
   text |-> <<"t","e","x","t">>,
   date |-> <<"d","a","t","e">>,
   timestamp |-> <<"t","i","m","e","s","t","a","m","p">>,
   timestamp_without_time_zone |->
     <<"t","i","m","e","s","t","a","m","p"," ","w","i","t","h","o","u","t",
       " ","t","i","m","e"," ","z","o","n","e">>]

\* representative and its aliases, in the order of the dict
redshift_dtypes ==
  << [repr |-> Spelling.smallint, equivs |-> <<Spelling.smallint, Spelling.int2>>],
     [repr |-> Spelling.integer, equivs |-> <<Spelling.integer, Spelling.int, Spelling.int4>>],
     [repr |-> Spelling.bigint, equivs |-> <<Spelling.bigint, Spelling.int8>>],
     [repr |-> Spelling.decimal, equivs |-> <<Spelling.decimal, Spelling.numeric>>],
     [repr |-> Spelling.real, equivs |-> <<Spelling.real, Spelling.float4>>],
     [repr |-> Spelling.double_precision,
      equivs |-> <<Spelling.double_precision, Spelling.float8, Spelling.float>>],
     [repr |-> Spelling.boolean, equivs |-> <<Spelling.boolean, Spelling.bool>>],
     [repr |-> Spelling.char,
      equivs |-> <<Spelling.char, Spelling.character, Spelling.nchar, Spelling.bpchar>>],
     [repr |-> Spelling.varchar,
      equivs |-> <<Spelling.varchar, Spelling.character_varying, Spelling.nvarchar,
                   Spelling.text>>],
     [repr |-> Spelling.date, equivs |-> <<Spelling.date>>],
     [repr |-> Spelling.timestamp,
      equivs |-> <<Spelling.timestamp, Spelling.timestamp_without_time_zone>>] >>

\* mutant: the representative timestamp is mapped to no numpy dtype
mapping_dtypes_WithoutTimestamp ==
  << [npdtype |-> "np.int16", rsdtypes |-> <<Spelling.smallint>>],
     [npdtype |-> "np.int32", rsdtypes |-> <<Spelling.integer>>],
     [npdtype |-> "np.int64", rsdtypes |-> <<Spelling.bigint>>],
     [npdtype |-> "np.float32", rsdtypes |-> <<Spelling.real>>],
     [npdtype |-> "np.float64", rsdtypes |-> <<Spelling.decimal, Spelling.double_precision>>],
     [npdtype |-> "np.str_",
      rsdtypes |-> <<Spelling.boolean, Spelling.char, Spelling.varchar, Spelling.date>>] >>

\* numpy dtype and the representatives mapped to it, in the order of the dict
mapping_dtypes ==
  << [npdtype |-> "np.int16", rsdtypes |-> <<Spelling.smallint>>],
     [npdtype |-> "np.int32", rsdtypes |-> <<Spelling.integer>>],
     [npdtype |-> "np.int64", rsdtypes |-> <<Spelling.bigint>>],
     [npdtype |-> "np.float32", rsdtypes |-> <<Spelling.real>>],
     [npdtype |-> "np.float64", rsdtypes |-> <<Spelling.decimal, Spelling.double_precision>>],
     [npdtype |-> "np.str_",
      rsdtypes |-> <<Spelling.boolean, Spelling.char, Spelling.varchar, Spelling.date,
                     Spelling.timestamp>>] >>

category_dtype ==
  [int_type |-> <<"np.int8", "np.int16", "np.int32", "np.int64">>,
   float_type |-> <<"np.float32", "np.float64">>,
   object_type |-> <<"np.str_">>]

\* An integer literal of the source, written as the source writes it: its
\* sign and its groups of three decimal digits (-32_768 is neg, <<32, 768>>).
\* The 64-bit limits do not fit the integers of the model checker.
Lit(neg, groups) == [neg |-> neg, groups |-> groups]

int_range ==
  ("np.int8" :> <<Lit(TRUE, <<128>>), Lit(FALSE, <<127>>)>>) @@
  ("np.int16" :> <<Lit(TRUE, <<32, 768>>), Lit(FALSE, <<32, 767>>)>>) @@
  ("np.int32" :> <<Lit(TRUE, <<2, 147, 483, 648>>), Lit(FALSE, <<2, 147, 483, 647>>)>>) @@
  ("np.int64" :> <<Lit(TRUE, <<9, 223, 372, 36, 854, 775, 808>>),
                   Lit(FALSE, <<9, 223, 372, 36, 854, 775, 807>>)>>)

(***************************************************************************)
(* Values and outcomes.                                                    *)
(***************************************************************************)
\* np.nan, the marker of an absent argument
nan == [isnan |-> TRUE]

Num(n) == [isnan |-> FALSE, v |-> n]

np_isnan(x) == x.isnan

Ok(v) == [exc |-> "none", value |-> v]

\* an exception of class exc raised in function site; arg is the string its
\* message quotes
Raise(exc, site, arg) == [exc |-> exc, site |-> site, arg |-> arg]

Raised(o) == o.exc # "none"

(***************************************************************************)
(* Python built-ins used by helpers.py.                                    *)
(***************************************************************************)
\* str.lower()
str_lower(s) ==
  [i \in 1..Len(s) |->
     IF IsIn(s[i], UpperLetters) THEN LowerLetters[IndexOf(s[i], UpperLetters)] ELSE s[i]]

\* re.split of the pattern [\(\), ]: the pieces between delimiters, empty
\* pieces included
RECURSIVE p_split(_)
p_split(s) ==
  IF \A i \in 1..Len(s) : s[i] \notin Delimiters
  THEN <<s>>
  ELSE LET i == CHOOSE k \in 1..Len(s) :
                  /\ s[k] \in Delimiters
                  /\ \A j \in 1..(k - 1) : s[j] \notin Delimiters
       IN <<SubSeq(s, 1, i - 1)>> \o p_split(SubSeq(s, i + 1, Len(s)))

IsDigits(tok) == Len(tok) > 0 /\ \A i \in 1..Len(tok) : IsIn(tok[i], Digits)

RECURSIVE DigitsValue(_)
DigitsValue(tok) ==
  IF Len(tok) = 0 THEN 0
  ELSE 10 * DigitsValue(SubSeq(tok, 1, Len(tok) - 1))
       + (IndexOf(tok[Len(tok)], Digits) - 1)

\* int(tok) for a token of letters and digits: the value of a digit string,
\* ValueError for anything else
py_int(tok) ==
  IF IsDigits(tok) THEN Ok(DigitsValue(tok)) ELSE Raise("ValueError", "int", tok)

(***************************************************************************)
(* helpers.py, function by function.  Where a function names an            *)
(* intermediate value and goes on with it, the rest of the function is an  *)
(* operator of that value.                                                 *)
(***************************************************************************)
NonEmpty(tok) == Len(tok) > 0

\* list(d.keys())[0]
FirstKey(d) == CHOOSE k \in DOMAIN d : TRUE

\* {} , the dict without keys
EmptyDict == [k \in {} |-> 0]

\* result[splitter[0]] = [int(splitter[1]), np.nan]
OneArg(name, arg1) ==
  IF Raised(arg1) THEN arg1 ELSE Ok(name :> <<Num(arg1.value), nan>>)

\* result[splitter[0]] = [int(splitter[1]), int(splitter[2])]
TwoArgs(name, arg1, arg2) ==
  IF Raised(arg1) THEN arg1
  ELSE IF Raised(arg2) THEN arg2
  ELSE Ok(name :> <<Num(arg1.value), Num(arg2.value)>>)

\* mutant: arguments after the second are dropped
SplitterToArgs_DropsExtra(column_dtype, splitter) ==
  IF Len(splitter) = 1 THEN Ok(splitter[1] :> <<nan, nan>>)
  ELSE IF Len(splitter) = 2 THEN OneArg(splitter[1], py_int(splitter[2]))
  ELSE IF Len(splitter) >= 3
  THEN TwoArgs(splitter[1], py_int(splitter[2]), py_int(splitter[3]))
  ELSE Raise("TypeError", "split_dtype_and_args", column_dtype)

\* the if/elif chain on len(splitter)
\* mutant: the error quotes the first token only
SplitterToArgs_QuotesName(column_dtype, splitter) ==
  IF Len(splitter) = 1 THEN Ok(splitter[1] :> <<nan, nan>>)
  ELSE IF Len(splitter) = 2 THEN OneArg(splitter[1], py_int(splitter[2]))
  ELSE IF Len(splitter) = 3
  THEN TwoArgs(splitter[1], py_int(splitter[2]), py_int(splitter[3]))
  ELSE Raise("TypeError", "split_dtype_and_args", splitter[1])

SplitterToArgs(column_dtype, splitter) ==
  IF Len(splitter) = 1 THEN Ok(splitter[1] :> <<nan, nan>>)
  ELSE IF Len(splitter) = 2 THEN OneArg(splitter[1], py_int(splitter[2]))
  ELSE IF Len(splitter) = 3
  THEN TwoArgs(splitter[1], py_int(splitter[2]), py_int(splitter[3]))
  ELSE Raise("TypeError", "split_dtype_and_args", column_dtype)

split_dtype_and_args(column_dtype) ==
  SplitterToArgs(column_dtype, SelectSeq(p_split(column_dtype), NonEmpty))

\* the first entry of table whose list, the field named by lists, holds x
\* (0 if none): the loops `for key, values in table.items(): if x in values`
FirstHolding(x, table, lists) ==
  IF \E k \in 1..Len(table) : IsIn(x, table[k][lists])
  THEN CHOOSE k \in 1..Len(table) :
         /\ IsIn(x, table[k][lists])
         /\ \A j \in 1..(k - 1) : ~IsIn(x, table[j][lists])
  ELSE 0

\* mutant: a name outside the table is taken for varchar
convert_to_representative_DefaultsToVarchar(column_dtype) ==
  IF FirstHolding(column_dtype, redshift_dtypes, "equivs") > 0
  THEN Ok(redshift_dtypes[FirstHolding(column_dtype, redshift_dtypes, "equivs")].repr)
  ELSE Ok(Spelling.varchar)

convert_to_representative(column_dtype) ==
  IF FirstHolding(column_dtype, redshift_dtypes, "equivs") > 0
  THEN Ok(redshift_dtypes[FirstHolding(column_dtype, redshift_dtypes, "equivs")].repr)
  ELSE Raise("TypeError", "convert_to_representative", column_dtype)

convert_to_numpy_dtype(column_dtype) ==
  IF FirstHolding(column_dtype, mapping_dtypes, "rsdtypes") > 0
  THEN Ok(mapping_dtypes[FirstHolding(column_dtype, mapping_dtypes, "rsdtypes")].npdtype)
  ELSE Raise("TypeError", "convert_to_numpy_dtype", column_dtype)

\* mutant: the type string is split as it is written
get_2args_KeepsCase(column_dtype) == split_dtype_and_args(column_dtype)

get_2args(column_dtype) == split_dtype_and_args(str_lower(column_dtype))

\* convert_to_numpy_dtype(convert_to_representative(redshift_dtype)), the
\* inner call having returned or raised repr
RepresentativeToNumpy(repr) ==
  IF Raised(repr) THEN repr ELSE convert_to_numpy_dtype(repr.value)

\* the same with redshift_dtype = list(get_2args(column_dtype).keys())[0]
ArgsToNumpy(args) ==
  IF Raised(args) THEN args
  ELSE RepresentativeToNumpy(convert_to_representative(FirstKey(args.value)))

convert_redshift_to_numpy_dtypes(column_dtype) == ArgsToNumpy(get_2args(column_dtype))

\* the dict the loop of convert_redshift_to_numpy_dtypes_with_2args builds:
\* conv[k] is convert_redshift_to_numpy_dtypes of the key k of tmp_dict
Rekeyed(tmp_dict, conv) ==
  IF \E k \in DOMAIN tmp_dict : Raised(conv[k])
  THEN conv[CHOOSE k \in DOMAIN tmp_dict : Raised(conv[k])]
  ELSE Ok([dtype \in {conv[k].value : k \in DOMAIN tmp_dict} |->
             tmp_dict[CHOOSE k \in DOMAIN tmp_dict : conv[k].value = dtype]])

\* the loop over tmp_dict.items(): result[numpy dtype of the key] = args
RekeyByNumpy(tmp_dict) ==
  IF Raised(tmp_dict) THEN tmp_dict
  ELSE Rekeyed(tmp_dict.value,
               [k \in DOMAIN tmp_dict.value |-> convert_redshift_to_numpy_dtypes(k)])

convert_redshift_to_numpy_dtypes_with_2args(column_dtype) ==
  RekeyByNumpy(get_2args(column_dtype))

\* mutant: every integer kind gets the range of np.int64
RangeOf_AlwaysInt64(dtype, args) ==
  IF IsIn(dtype, category_dtype.object_type)
  THEN IF np_isnan(args[1]) THEN [bytes |-> 64] ELSE [bytes |-> args[1].v]
  ELSE IF IsIn(dtype, category_dtype.int_type)
  THEN [min |-> int_range["np.int64"][1], max |-> int_range["np.int64"][2]]
  ELSE IF IsIn(dtype, category_dtype.float_type)
  THEN EmptyDict
  ELSE args

\* mutant: the default applies to a falsy first argument (`if not args[0]`)
RangeOf_FalsyDefault(dtype, args) ==
  IF IsIn(dtype, category_dtype.object_type)
  THEN IF np_isnan(args[1]) \/ args[1].v = 0 THEN [bytes |-> 64]
       ELSE [bytes |-> args[1].v]
  ELSE IF IsIn(dtype, category_dtype.int_type)
  THEN [min |-> int_range[dtype][1], max |-> int_range[dtype][2]]
  ELSE IF IsIn(dtype, category_dtype.float_type)
  THEN EmptyDict
  ELSE args

\* the value the loop body of convert_redshift_to_numpy_dtypes_with_range
\* stores for one key
RangeOf(dtype, args) ==
  IF IsIn(dtype, category_dtype.object_type)
  THEN IF np_isnan(args[1]) THEN [bytes |-> 64] ELSE [bytes |-> args[1].v]
  ELSE IF IsIn(dtype, category_dtype.int_type)
  THEN [min |-> int_range[dtype][1], max |-> int_range[dtype][2]]
  ELSE IF IsIn(dtype, category_dtype.float_type)
  THEN EmptyDict
  ELSE args

\* the loop over tmp_dict.items() of convert_redshift_to_numpy_dtypes_with_range
WithRanges(tmp_dict) ==
  IF Raised(tmp_dict) THEN tmp_dict
  ELSE Ok([dtype \in DOMAIN tmp_dict.value |-> RangeOf(dtype, tmp_dict.value[dtype])])

convert_redshift_to_numpy_dtypes_with_range(column_dtype) ==
  WithRanges(convert_redshift_to_numpy_dtypes_with_2args(column_dtype))

\* mutant: float kinds keep their declared width
WidenedKey_KeepsFloatWidth(dtype) ==
  IF IsIn(dtype, category_dtype.int_type) THEN "np.int64" ELSE dtype

\* mutant: integer kinds keep their declared width
WidenedKey_KeepsIntWidth(dtype) ==
  IF IsIn(dtype, category_dtype.float_type) THEN "np.float64" ELSE dtype

\* the key dtype_converter stores the ranges of dtype under
WidenedKey(dtype) ==
  IF IsIn(dtype, category_dtype.int_type) THEN "np.int64"
  ELSE IF IsIn(dtype, category_dtype.float_type) THEN "np.float64"
  ELSE dtype

\* the loop over tmp_dict.items() of dtype_converter
Widened(tmp_dict) ==
  IF Raised(tmp_dict) THEN tmp_dict
  ELSE Ok([wide \in {WidenedKey(dtype) : dtype \in DOMAIN tmp_dict.value} |->
             tmp_dict.value[CHOOSE dtype \in DOMAIN tmp_dict.value :
                              WidenedKey(dtype) = wide]])

dtype_converter(column_dtype) ==
  Widened(convert_redshift_to_numpy_dtypes_with_range(column_dtype))

(***************************************************************************)
(* The type strings handed to the normalizer.                              *)
(***************************************************************************)
\* a base name outside the alias table
timestamptz == <<"t","i","m","e","s","t","a","m","p","t","z">>

\* the first word of a two-word spelling, alone no spelling
double == <<"d","o","u","b","l","e">>

BaseNames == {Spelling[f] : f \in DOMAIN Spelling} \cup {timestamptz, double}

\* argument tokens: numbers, zero, and a token that is no number
ArgTokens == { <<"1","1">>, <<"4">>, <<"0">>, <<"m","a","x">> }

CaseModes == {"lower", "upper", "capital"}

Layouts == {"tight", "spaced", "padded"}

str_upper(s) ==
  [i \in 1..Len(s) |->
     IF IsIn(s[i], LowerLetters) THEN UpperLetters[IndexOf(s[i], LowerLetters)] ELSE s[i]]

Cased(name, mode) ==
  IF mode = "upper" THEN str_upper(name)
  ELSE IF mode = "capital" THEN str_upper(SubSeq(name, 1, 1)) \o SubSeq(name, 2, Len(name))
  ELSE name

RECURSIVE Joined(_, _)
Joined(args, sep) ==
  IF Len(args) = 0 THEN <<>>
  ELSE IF Len(args) = 1 THEN args[1]
  ELSE args[1] \o sep \o Joined(Tail(args), sep)

\* name(a,b)  |  name( a, b )  |  ' name(a, b) ', the layouts of the tests
TypeString(name, args, layout) ==
  IF Len(args) = 0
  THEN IF layout = "padded" THEN <<" ">> \o name \o <<" ">> ELSE name
  ELSE IF layout = "tight" THEN name \o <<"(">> \o Joined(args, <<",">>) \o <<")">>
  ELSE IF layout = "spaced"
  THEN name \o <<"(", " ">> \o Joined(args, <<",", " ">>) \o <<" ", ")">>
  ELSE <<" ">> \o name \o <<"(">> \o Joined(args, <<",", " ">>) \o <<")", " ">>

ArgLists == UNION { [1..n -> ArgTokens] : n \in 0..MaxArgs }

\* how a caller writes a type string: base name, letter case, argument
\* tokens and layout
Writings == [name : BaseNames, mode : CaseModes, args : ArgLists, layout : Layouts]

Written(w) == TypeString(Cased(w.name, w.mode), w.args, w.layout)

\* the writings the respelling properties are checked on
RespellWritings ==
  [name : BaseNames, mode : CaseModes,
   args : UNION { [1..n -> ArgTokens] : n \in 0..MaxRespellArgs }, layout : Layouts]

(***************************************************************************)
(* The inputs of CheckTable: the format file and the rsdtype file.         *)
(***************************************************************************)
\* contents of a format file: delimiter, encoding and na_value
Formats ==
  { [delimiter |-> ",", encoding |-> "utf_8", na_value |-> ""],
    [delimiter |-> "\t", encoding |-> "utf_8", na_value |-> "NULL"] }

\* data_type cells of an rsdtype file: SMALLINT, varchar(11), NUMERIC( 11, 4 ),
\* TIMESTAMPTZ, decimal(11,4,0) and varchar(max)
SchemaTypes ==
  { Written([name |-> Spelling.smallint, mode |-> "upper", args |-> <<>>,
             layout |-> "tight"]),
    Written([name |-> Spelling.varchar, mode |-> "lower", args |-> << <<"1","1">> >>,
             layout |-> "tight"]),
    Written([name |-> Spelling.numeric, mode |-> "upper",
             args |-> << <<"1","1">>, <<"4">> >>, layout |-> "spaced"]),
    Written([name |-> timestamptz, mode |-> "upper", args |-> <<>>, layout |-> "tight"]),
    Written([name |-> Spelling.decimal, mode |-> "lower",
             args |-> << <<"1","1">>, <<"4">>, <<"0">> >>, layout |-> "tight"]),
    Written([name |-> Spelling.varchar, mode |-> "lower", args |-> << <<"m","a","x">> >>,
             layout |-> "tight"]) }

\* the physical_column_name of the rows of an rsdtype file, in file order
ColumnNames == <<"color_name", "hex", "rgb", "pinteger", "realnumber", "all_null">>

\* the pk and not_null_constraint cells
Flags == {0, 1}

\* data_type cells of the tables of the size checks: SMALLINT, varchar(4)
\* and NUMERIC( 11, 4 )
SizeTypes ==
  { Written([name |-> Spelling.smallint, mode |-> "upper", args |-> <<>>,
             layout |-> "tight"]),
    Written([name |-> Spelling.varchar, mode |-> "lower", args |-> << <<"4">> >>,
             layout |-> "tight"]),
    Written([name |-> Spelling.numeric, mode |-> "upper",
             args |-> << <<"1","1">>, <<"4">> >>, layout |-> "spaced"]) }

\* data_type cells of the tables of the null and key checks: varchar(4)
KeyTypes ==
  { Written([name |-> Spelling.varchar, mode |-> "lower", args |-> << <<"4">> >>,
             layout |-> "tight"]) }

\* an rsdtype file of n rows below the header
RsdtypeFiles(n) ==
  [1..n -> [pk : Flags, not_null_constraint : Flags, data_type : SchemaTypes]]

(***************************************************************************)
(* The raw data file and the table pd.read_csv makes of it.  A field of    *)
(* the file is a string; a loaded cell is NaN, a number or a str.          *)
(***************************************************************************)
\* a character whose UTF-8 encoding takes two bytes
EAcute == "U+00E9"

\* len(s.encode('utf-8'))
RECURSIVE utf8_len(_)
utf8_len(s) ==
  IF Len(s) = 0 THEN 0
  ELSE (IF Head(s) = EAcute THEN 2 ELSE 1) + utf8_len(Tail(s))

\* a loaded str cell
Str(s) == [isnan |-> FALSE, s |-> s]

\* the empty field is one of the strings pandas reads as a missing value
IsNullField(field) == field = <<>>

\* the field spells an integer
IsNumeral(field) ==
  IF Len(field) > 0 /\ Head(field) = "-" THEN IsDigits(Tail(field)) ELSE IsDigits(field)

NumeralValue(field) ==
  IF Head(field) = "-" THEN 0 - DigitsValue(Tail(field)) ELSE DigitsValue(field)

\* The storage type of a column read without a type.  No row: object; every
\* field missing: float64 (all NaN); every present field a numeral: int64, or
\* float64 when a field is missing; otherwise object.
InferredStorage(fields) ==
  IF Len(fields) = 0 THEN "object"
  ELSE IF \E r \in 1..Len(fields) : ~IsNullField(fields[r]) /\ ~IsNumeral(fields[r])
       THEN "object"
  ELSE IF \E r \in 1..Len(fields) : IsNullField(fields[r]) THEN "float64"
  ELSE "int64"

\* The dtype argument decides the storage type of a column only when it
\* names a type: '' is falsy, and the python engine then infers the type.
ColumnStorage(dtype, fields) ==
  IF dtype = "" THEN InferredStorage(fields)
  ELSE IF dtype = "np.str_" THEN "object"
  ELSE "float64"

LoadedCell(storage, field) ==
  IF IsNullField(field) THEN nan
  ELSE IF storage = "object" THEN Str(field)
  ELSE Num(NumeralValue(field))

LoadedColumn(storage, fields) ==
  [storage |-> storage,
   cells |-> [r \in 1..Len(fields) |-> LoadedCell(storage, fields[r])]]

\* the fields of column i, top to bottom
FieldsOf(rows, i) == [r \in 1..Len(rows) |-> rows[r][i]]

\* pd.read_csv(rawdata_file, names=..., dtype=..., sep=..., encoding=...,
\* na_values=..., engine='python') on a file of the given rows
read_csv(rows, names, dtype, sep, encoding, na_values) ==
  [loaded |-> TRUE,
   names |-> names,
   dtype |-> dtype,
   sep |-> sep,
   encoding |-> encoding,
   na_values |-> na_values,
   index |-> Len(rows),
   columns |-> [i \in 1..Len(names) |->
                  LoadedColumn(ColumnStorage(dtype[i].dtype, FieldsOf(rows, i)),
                               FieldsOf(rows, i))]]

\* a raw data file without a row
EmptyFile == <<>>

\* fields of the size checks: missing, 4 bytes, 4 characters in 5 bytes,
\* 32767 and -32768
SizeFields ==
  { <<>>, <<"a","b","c","d">>, <<"a","b","c",EAcute>>,
    <<"3","2","7","6","7">>, <<"-","3","2","7","6","8">> }

\* fields of the null and key checks
KeyFields == { <<>>, <<"a">> }

(***************************************************************************)
(* State.                                                                  *)
(***************************************************************************)
VARIABLES
  given,         \* how the caller wrote the type string
  column_dtype,  \* the argument of dtype_converter
  result,        \* what the call returned or raised; Pending before the call
  rsdtype_rows,  \* the rows of the rsdtype file
  rawdata_rows,  \* the rows of the raw data file
  pc,            \* the position of CheckTable.__init__
  file,          \* self.file
  dinfo,         \* self.dinfo: its entries in insertion order
  column,        \* the entry the conversion loop is at
  raised,        \* the exception __init__ raised, NoException if none
  dtypes_cover_missing_values,  \* the dtype argument of pd.read_csv
  df,            \* self.df; NotLoaded until pd.read_csv has run
  method,        \* the operation called on the constructed CheckTable
  outcome,       \* what that operation returned or raised; Pending before
  output_file    \* the report file of execute_checktable

vars ==
  <<given, column_dtype, result, rsdtype_rows, rawdata_rows, pc, file, dinfo, column,
    raised, dtypes_cover_missing_values, df, method, outcome, output_file>>

normalizer_vars == <<given, column_dtype, result>>

checktable_vars ==
  <<rsdtype_rows, rawdata_rows, pc, file, dinfo, column, raised,
    dtypes_cover_missing_values, df>>

validator_vars == <<method, outcome, output_file>>

\* no call made yet
Pending == [exc |-> "pending"]

NoException == [exc |-> "none"]

NotLoaded == [loaded |-> FALSE]

\* the output file before open(output_file, mode='w')
Unopened == [opened |-> FALSE]

\* no operation has been called on the CheckTable
\* a call of an operation; analysis_type is '' where the operation has none
Call(name, analysis_type) == [name |-> name, analysis_type |-> analysis_type]

NoCall == Call("none", "")

ValidatorIdle ==
  /\ method = NoCall
  /\ outcome = Pending
  /\ output_file = Unopened

NoWriting == [name |-> <<>>, mode |-> "lower", args |-> <<>>, layout |-> "tight"]

\* no CheckTable is under construction
CheckTableIdle ==
  /\ rsdtype_rows = <<>>
  /\ rawdata_rows = <<>>
  /\ pc = "idle"
  /\ file = <<>>
  /\ dinfo = <<>>
  /\ column = 0
  /\ raised = NoException
  /\ dtypes_cover_missing_values = <<>>
  /\ df = NotLoaded

(***************************************************************************)
(* The normalizer as a state machine: a caller writes a type string and    *)
(* calls dtype_converter on it.                                            *)
(***************************************************************************)
InitConv ==
  /\ given \in Writings
  /\ column_dtype = Written(given)
  /\ result = Pending
  /\ CheckTableIdle
  /\ ValidatorIdle

CallDtypeConverter ==
  /\ pc = "idle"
  /\ result = Pending
  /\ result' = dtype_converter(column_dtype)
  /\ UNCHANGED <<given, column_dtype>>
  /\ UNCHANGED checktable_vars
  /\ UNCHANGED validator_vars

NextConv == CallDtypeConverter

SpecConv == InitConv /\ [][NextConv]_vars

\* the same machine on the writings of the respelling properties
InitRespell ==
  /\ given \in RespellWritings
  /\ column_dtype = Written(given)
  /\ result = Pending
  /\ CheckTableIdle
  /\ ValidatorIdle

SpecRespell == InitRespell /\ [][NextConv]_vars

(***************************************************************************)
(* CheckTable.__init__, statement by statement.                            *)
(***************************************************************************)
Init ==
  /\ given = NoWriting
  /\ column_dtype = <<>>
  /\ result = Pending
  /\ rsdtype_rows \in UNION { RsdtypeFiles(n) : n \in 0..MaxCols }
  /\ rawdata_rows = EmptyFile
  /\ pc = "open_format"
  /\ file = <<>>
  /\ dinfo = <<>>
  /\ column = 0
  /\ raised = NoException
  /\ dtypes_cover_missing_values = <<>>
  /\ df = NotLoaded
  /\ ValidatorIdle

\* self.file = yaml.safe_load(f)
LoadFormat ==
  /\ pc = "open_format"
  /\ \E f \in Formats : file' = f
  /\ pc' = "read_rsdtype"
  /\ UNCHANGED <<rsdtype_rows, rawdata_rows, dinfo, column, raised, dtypes_cover_missing_values, df>>
  /\ UNCHANGED normalizer_vars
  /\ UNCHANGED validator_vars

\* the csv.DictReader loop: one entry per row, data_type kept as a string
ReadRsdtype ==
  /\ pc = "read_rsdtype"
  /\ dinfo' = [i \in 1..Len(rsdtype_rows) |->
                 [name |-> ColumnNames[i],
                  pk |-> rsdtype_rows[i].pk,
                  not_null_constraint |-> rsdtype_rows[i].not_null_constraint,
                  dtype |-> rsdtype_rows[i].data_type]]
  /\ column' = 1
  /\ pc' = "convert"
  /\ UNCHANGED <<rsdtype_rows, rawdata_rows, file, raised, dtypes_cover_missing_values, df>>
  /\ UNCHANGED normalizer_vars
  /\ UNCHANGED validator_vars

\* the entry's dtype is replaced, or the exception leaves __init__
StoreOrRaise(converted) ==
  IF Raised(converted)
  THEN /\ raised' = converted
       /\ pc' = "raised"
       /\ UNCHANGED <<dinfo, column>>
  ELSE /\ dinfo' = [dinfo EXCEPT ![column].dtype = converted.value]
       /\ column' = column + 1
       /\ UNCHANGED <<raised, pc>>

StoreOrSkip(converted) ==
  IF Raised(converted)
  THEN /\ column' = column + 1
       /\ UNCHANGED <<dinfo, raised, pc>>
  ELSE /\ dinfo' = [dinfo EXCEPT ![column].dtype = converted.value]
       /\ column' = column + 1
       /\ UNCHANGED <<raised, pc>>

\* mutant: a column whose type fails to convert is skipped
ConvertColumn_SkipsFailure ==
  /\ pc = "convert"
  /\ column <= Len(dinfo)
  /\ StoreOrSkip(dtype_converter(dinfo[column].dtype))
  /\ UNCHANGED <<rsdtype_rows, rawdata_rows, file, dtypes_cover_missing_values, df>>
  /\ UNCHANGED normalizer_vars
  /\ UNCHANGED validator_vars

\* one turn of the loop `for column, _ in self.dinfo.items()`: the entry's
\* dtype becomes dtype_converter of it, or the exception leaves __init__
ConvertColumn ==
  /\ pc = "convert"
  /\ column <= Len(dinfo)
  /\ StoreOrRaise(dtype_converter(dinfo[column].dtype))
  /\ UNCHANGED <<rsdtype_rows, rawdata_rows, file, dtypes_cover_missing_values, df>>
  /\ UNCHANGED normalizer_vars
  /\ UNCHANGED validator_vars

\* dtypes = {column: eval(dtype) ...}: the numpy type each entry's key names
dtypes == [i \in 1..Len(dinfo) |-> [name |-> dinfo[i].name, dtype |-> FirstKey(dinfo[i].dtype)]]

\* The dict starts as {column: ''}; the two branches of the loop over
\* dtypes.items() are comparisons (==), not assignments, and store nothing.
CoverMissingValues(types) ==
  [i \in 1..Len(types) |-> [name |-> types[i].name, dtype |-> ""]]

\* the loop is over: the dtype argument of pd.read_csv is built
BuildLoadDtypes ==
  /\ pc = "convert"
  /\ column > Len(dinfo)
  /\ dtypes_cover_missing_values' = CoverMissingValues(dtypes)
  /\ pc' = "read_csv"
  /\ UNCHANGED <<rsdtype_rows, rawdata_rows, file, dinfo, column, raised, df>>
  /\ UNCHANGED normalizer_vars
  /\ UNCHANGED validator_vars

\* self.df = pd.read_csv(rawdata_file, ...)
ReadCsv ==
  /\ pc = "read_csv"
  /\ df' = read_csv(rawdata_rows,
                     [i \in 1..Len(dinfo) |-> dinfo[i].name],
                     dtypes_cover_missing_values,
                     file.delimiter, file.encoding, file.na_value)
  /\ pc' = "constructed"
  /\ UNCHANGED <<rsdtype_rows, rawdata_rows, file, dinfo, column, raised, dtypes_cover_missing_values>>
  /\ UNCHANGED normalizer_vars
  /\ UNCHANGED validator_vars

Next ==
  \/ LoadFormat
  \/ ReadRsdtype
  \/ ConvertColumn
  \/ BuildLoadDtypes
  \/ ReadCsv

Spec == Init /\ [][Next]_vars

(***************************************************************************)
(* The methods of a constructed CheckTable.  A dict is the sequence of     *)
(* its entries in insertion order.                                         *)
(***************************************************************************)
None == [none |-> TRUE]

\* self.dinfo[column_name]
Entry(column_name) ==
  dinfo[CHOOSE i \in 1..Len(dinfo) : dinfo[i].name = column_name]

\* self.df[column_name]
Series(column_name) ==
  df.columns[CHOOSE i \in 1..Len(df.names) : df.names[i] = column_name]

\* the rows at which the column holds a value
Present(cells) == {r \in 1..Len(cells) : ~cells[r].isnan}

MaxOf(S) == CHOOSE m \in S : \A n \in S : n <= m

\* Series.max(): missing cells are skipped, NaN when nothing is left
SeriesMax(S) == IF S = {} THEN nan ELSE Num(MaxOf(S))

Abs(n) == IF n < 0 THEN 0 - n ELSE n

\* series.abs().max(): abs() of a str cell raises TypeError
AbsMax(series, column_name) ==
  IF series.storage = "object" /\ Present(series.cells) # {}
  THEN Raise("TypeError", "abs", column_name)
  ELSE Ok(SeriesMax({Abs(series.cells[r].v) : r \in Present(series.cells)}))

\* series.str.encode('utf-8').str.len().max(): the .str accessor exists on
\* object columns only
EncodedLenMax(series, column_name) ==
  IF series.storage # "object"
  THEN Raise("AttributeError", "str", column_name)
  ELSE Ok(SeriesMax({utf8_len(series.cells[r].s) : r \in Present(series.cells)}))

\* the two returns of a branch of max_size_of: NaN as it is, otherwise int()
\* of a float that holds a whole number
NanOrInt(size) ==
  IF Raised(size) THEN size
  ELSE IF np_isnan(size.value) THEN size
  ELSE Ok(Num(size.value.v))

max_size_of(column_name) ==
  IF FirstKey(Entry(column_name).dtype) = "np.int64"
  THEN NanOrInt(AbsMax(Series(column_name), column_name))
  ELSE IF FirstKey(Entry(column_name).dtype) = "np.str_"
  THEN NanOrInt(EncodedLenMax(Series(column_name), column_name))
  ELSE Ok(None)

\* the exception of the first call that raised
FirstRaised(outs) ==
  outs[CHOOSE i \in 1..Len(outs) : Raised(outs[i]) /\ \A j \in 1..(i - 1) : ~Raised(outs[j])]

\* the dict of the values the calls returned, unless one of them raised
Collected(names, outs) ==
  IF \E i \in 1..Len(outs) : Raised(outs[i]) THEN FirstRaised(outs)
  ELSE Ok([i \in 1..Len(names) |-> [name |-> names[i], value |-> outs[i].value]])

max_sizes ==
  Collected(df.names, [i \in 1..Len(df.names) |-> max_size_of(df.names[i])])

\* a natural number as groups of three decimal digits
RECURSIVE NatGroups(_)
NatGroups(n) ==
  IF n < 1000 THEN <<n>> ELSE Append(NatGroups(n \div 1000), n % 1000)

\* a > b for two sequences of groups of the same length
RECURSIVE GroupsGreater(_, _)
GroupsGreater(a, b) ==
  IF Len(a) = 0 THEN FALSE
  ELSE IF Head(a) # Head(b) THEN Head(a) > Head(b)
  ELSE GroupsGreater(Tail(a), Tail(b))

\* n > literal, for a natural number n
GreaterThanLit(n, literal) ==
  IF literal.neg THEN TRUE
  ELSE IF Len(NatGroups(n)) # Len(literal.groups)
       THEN Len(NatGroups(n)) > Len(literal.groups)
  ELSE GroupsGreater(NatGroups(n), literal.groups)

\* size > bound of the entry's type; a comparison with NaN is False
TooLarge(sized) ==
  IF FirstKey(Entry(sized.name).dtype) = "np.str_"
  THEN /\ ~np_isnan(sized.value)
       /\ sized.value.v > Entry(sized.name).dtype["np.str_"].bytes
  ELSE IF FirstKey(Entry(sized.name).dtype) = "np.int64"
  THEN /\ ~np_isnan(sized.value)
       /\ GreaterThanLit(sized.value.v, Entry(sized.name).dtype["np.int64"].max)
  ELSE FALSE

Names(entries) == [i \in 1..Len(entries) |-> entries[i].name]

OversizedOf(sizes) ==
  IF Raised(sizes) THEN sizes ELSE Ok(Names(SelectSeq(sizes.value, TooLarge)))

size_error == OversizedOf(max_sizes)

\* self.df[column_name].isnull().sum()
count_nan_of(column_name) ==
  Cardinality({r \in 1..Len(Series(column_name).cells) : Series(column_name).cells[r].isnan})

HasNotNullConstraint(column_name) == Entry(column_name).not_null_constraint = 1

Counted(names) ==
  [i \in 1..Len(names) |-> [name |-> names[i], value |-> count_nan_of(names[i])]]

\* mutant: a column without the flag gets the count 0
count_nan_ZeroFilled ==
  [i \in 1..Len(df.names) |->
     [name |-> df.names[i],
      value |-> IF HasNotNullConstraint(df.names[i]) THEN count_nan_of(df.names[i])
                ELSE 0]]

\* the keys are the flagged columns; the loop fills them in column order
count_nan == Counted(SelectSeq(df.names, HasNotNullConstraint))

HasNan(counted) == counted.value > 0

HasNoNan(counted) == counted.value >= 0

\* mutant: the comparison is nans >= 0
not_null_constraint_error_OrEqual == Names(SelectSeq(count_nan, HasNoNan))

not_null_constraint_error == Names(SelectSeq(count_nan, HasNan))

IsSuperkeyMember(column_name) == Entry(column_name).pk # 0

\* self.df[not_nulls]: the rows of the table over the listed columns
Projection(names) ==
  [index |-> df.index,
   width |-> Len(names),
   rows |-> [r \in 1..df.index |-> [k \in 1..Len(names) |-> Series(names[k]).cells[r]]]]

\* mutant: only the first listed column is compared
drop_duplicates_len_FirstColumn(frame) ==
  IF frame.index = 0 \/ frame.width = 0 THEN frame.index
  ELSE Cardinality({frame.rows[r][1] : r \in 1..frame.index})

\* len(frame.drop_duplicates()): an empty frame (no row or no column) is
\* returned as it is; otherwise one row is kept per distinct tuple, two NaN
\* being equal
drop_duplicates_len(frame) ==
  IF frame.index = 0 \/ frame.width = 0 THEN frame.index
  ELSE Cardinality({frame.rows[r] : r \in 1..frame.index})

not_nulls == SelectSeq(df.names, IsSuperkeyMember)

superkey_error == ~(df.index = drop_duplicates_len(Projection(not_nulls)))

(***************************************************************************)
(* execute_checktable of main.py.  The report is the sequence of its       *)
(* sections, each a title and its rows.                                    *)
(***************************************************************************)
AnalysisTypes == {"summary", "detail"}

Section(title, rows) == [title |-> title, rows |-> rows]

SuperkeySection ==
  Section("SUPERKEY ERROR", <<"The candidate set of columns is not a superkey.">>)

NotNullSections(not_null) ==
  IF Len(not_null) > 0 THEN <<Section("NOT-NULL CONSTRAINT ERROR", not_null)>> ELSE <<>>

SuperkeySections(superkey) == IF superkey THEN <<SuperkeySection>> ELSE <<>>

\* `result` is read before any assignment
Unbound == Raise("UnboundLocalError", "execute_checktable", "result")

\* Summary mode: `result` is assigned under `if size:` only; when size is the
\* empty list, the first of `result += ...` (not_null), `result += ...`
\* (superkey) and f.write(result) that runs reads the unbound name.
SummaryReport(size, not_null, superkey) ==
  IF Raised(size) THEN size
  ELSE IF Len(size.value) = 0 THEN Unbound
  ELSE Ok(<<Section("SIZE ERROR", size.value)>>
          \o NotNullSections(not_null) \o SuperkeySections(superkey))

\* not (maxsize is None or np.isnan(maxsize))
IsShown(sized) == ~(sized.value = None \/ np_isnan(sized.value))

\* detail mode: size is the dict of max_sizes(), empty only without a column
DetailReport(size, not_null, superkey) ==
  IF Raised(size) THEN size
  ELSE IF Len(size.value) = 0 THEN Unbound
  ELSE Ok(<<Section("SIZE ERROR", SelectSeq(size.value, IsShown))>>
          \o NotNullSections(not_null) \o SuperkeySections(superkey))

\* column_max_length = len(max(testing.df.columns, key = len)) raises
\* ValueError on a table without a column; then the branch of analysis_type
Report(analysis_type) ==
  IF Len(df.names) = 0 THEN Raise("ValueError", "max", "")
  ELSE IF analysis_type = "summary"
  THEN SummaryReport(size_error, not_null_constraint_error, superkey_error)
  ELSE DetailReport(max_sizes, count_nan, superkey_error)

\* open(output_file, mode='w') creates the file empty; f.write(result) is the
\* last statement, so the report is in the file only when nothing raised
FileAfter(report) ==
  [opened |-> TRUE,
   written |-> ~Raised(report),
   content |-> IF Raised(report) THEN <<>> ELSE report.value]

\* the function returns None
Returned(report) == IF Raised(report) THEN report ELSE Ok(None)

(***************************************************************************)
(* The constructed CheckTable as a state machine: one operation is called  *)
(* on it.  execute_checktable builds its own CheckTable from the same      *)
(* files, which is the same dinfo and df.                                  *)
(***************************************************************************)
CallMethod(name, returned) ==
  /\ pc = "constructed"
  /\ method = NoCall
  /\ method' = Call(name, "")
  /\ outcome' = returned
  /\ UNCHANGED output_file
  /\ UNCHANGED checktable_vars
  /\ UNCHANGED normalizer_vars

CallMaxSizes == CallMethod("max_sizes", max_sizes)

CallSizeError == CallMethod("size_error", size_error)

CallCountNan == CallMethod("count_nan", Ok(count_nan))

CallNotNullConstraintError ==
  CallMethod("not_null_constraint_error", Ok(not_null_constraint_error))

CallSuperkeyError == CallMethod("superkey_error", Ok(superkey_error))

ExecuteChecktable ==
  /\ pc = "constructed"
  /\ method = NoCall
  /\ \E analysis_type \in AnalysisTypes :
       /\ method' = Call("execute_checktable", analysis_type)
       /\ outcome' = Returned(Report(analysis_type))
       /\ output_file' = FileAfter(Report(analysis_type))
  /\ UNCHANGED checktable_vars
  /\ UNCHANGED normalizer_vars

NextValidate ==
  \/ CallMaxSizes
  \/ CallSizeError
  \/ CallCountNan
  \/ CallNotNullConstraintError
  \/ CallSuperkeyError
  \/ ExecuteChecktable

\* the format file of the run
TsvFormat == CHOOSE f \in Formats : f.delimiter = "\t"

\* raw data files of at most MaxRows rows of n fields
RawFiles(n, fields) == UNION { [1..r -> [1..n -> fields]] : r \in 0..MaxRows }

\* the states CheckTable.__init__ ends in on an rsdtype file whose types all
\* normalize and a raw data file of the given fields
Constructed(rsdtype, fields) ==
  /\ given = NoWriting
  /\ column_dtype = <<>>
  /\ result = Pending
  /\ rsdtype_rows = rsdtype
  /\ pc = "constructed"
  /\ file = TsvFormat
  /\ dinfo = [i \in 1..Len(rsdtype) |->
                [name |-> ColumnNames[i],
                 pk |-> rsdtype[i].pk,
                 not_null_constraint |-> rsdtype[i].not_null_constraint,
                 dtype |-> dtype_converter(rsdtype[i].data_type).value]]
  /\ column = Len(rsdtype) + 1
  /\ raised = NoException
  /\ dtypes_cover_missing_values = CoverMissingValues(dtypes)
  /\ rawdata_rows \in RawFiles(Len(rsdtype), fields)
  /\ df = read_csv(rawdata_rows, [i \in 1..Len(dinfo) |-> dinfo[i].name],
                   dtypes_cover_missing_values,
                   file.delimiter, file.encoding, file.na_value)
  /\ ValidatorIdle

\* tables for the size checks: smallint, varchar(4) and numeric columns over
\* fields at and above the two bounds
InitSizes ==
  \E n \in 1..MaxCols :
    \E rsdtype \in [1..n -> [pk : Flags, not_null_constraint : Flags,
                             data_type : SizeTypes]] :
      Constructed(rsdtype, SizeFields)

SpecSizes == InitSizes /\ [][NextValidate]_vars

\* tables for the null and key checks: every combination of the two flags
InitKeys ==
  \E n \in 1..MaxCols :
    \E rsdtype \in [1..n -> [pk : Flags, not_null_constraint : Flags,
                             data_type : KeyTypes]] :
      Constructed(rsdtype, KeyFields)

SpecKeys == InitKeys /\ [][NextValidate]_vars

(***************************************************************************)
(* Vocabulary of the properties.                                           *)
(***************************************************************************)
Done == result # Pending

\* the type string is a spelling alone, in some letter case
Bare == given.args = <<>> /\ given.layout # "padded"

SmallintWords == {Spelling.smallint, Spelling.int2}

IntegerWords == {Spelling.integer, Spelling.int, Spelling.int4}

BigintWords == {Spelling.bigint, Spelling.int8}

IntegerFamily == SmallintWords \cup IntegerWords \cup BigintWords

FloatWords ==
  {Spelling.decimal, Spelling.numeric, Spelling.real, Spelling.float4, Spelling.float8,
   Spelling.float}

TextWords ==
  {Spelling.boolean, Spelling.bool, Spelling.char, Spelling.character, Spelling.nchar,
   Spelling.bpchar, Spelling.varchar, Spelling.nvarchar, Spelling.text, Spelling.date,
   Spelling.timestamp}

AliasTableSpellings == {Spelling[f] : f \in DOMAIN Spelling}

UnknownNames == BaseNames \ AliasTableSpellings

\* the number an argument token denotes
ArgValue == (<<"1","1">> :> 11) @@ (<<"4">> :> 4) @@ (<<"0">> :> 0)

NumericArgs(args) == \A i \in 1..Len(args) : args[i] \in DOMAIN ArgValue

Range16 == [min |-> Lit(TRUE, <<32, 768>>), max |-> Lit(FALSE, <<32, 767>>)]

Range32 ==
  [min |-> Lit(TRUE, <<2, 147, 483, 648>>), max |-> Lit(FALSE, <<2, 147, 483, 647>>)]

Range64 ==
  [min |-> Lit(TRUE, <<9, 223, 372, 36, 854, 775, 808>>),
   max |-> Lit(FALSE, <<9, 223, 372, 36, 854, 775, 807>>)]

DeclaredRange(name) ==
  IF name \in SmallintWords THEN Range16
  ELSE IF name \in IntegerWords THEN Range32
  ELSE Range64

TooManyArguments(o) == o.exc = "TypeError" /\ o.site = "split_dtype_and_args"

UnknownType(o) == o.exc = "TypeError" /\ o.site = "convert_to_representative"

C2_TextMaxBytes ==
  (/\ Done
   /\ given.name \in TextWords
   /\ Len(given.args) <= 2
   /\ NumericArgs(given.args))
    => result = Ok("np.str_" :> [bytes |-> IF Len(given.args) = 0 THEN 64
                                            ELSE ArgValue[given.args[1]]])

C2_Witness ==
  /\ Done
  /\ given.name = Spelling.char
  /\ given.args = << <<"0">>, <<"1","1">> >>
  /\ result = Ok("np.str_" :> [bytes |-> 0])

\* C3: a float-family type with zero, one or two numeric arguments gives
\* np.float64 with the empty bound, whatever the arguments are.
C3_FloatEmptyBound ==
  (/\ Done
   /\ given.name \in FloatWords
   /\ Len(given.args) <= 2
   /\ NumericArgs(given.args))
    => result = Ok("np.float64" :> EmptyDict)

C3_Witness ==
  /\ Done
  /\ given.name = Spelling.real
  /\ given.args = << <<"1","1">>, <<"4">> >>
  /\ result = Ok("np.float64" :> EmptyDict)

\* the descriptor of the canonical type a spelling stands for
CanonicalDescriptor(name) ==
  IF name \in IntegerFamily THEN "np.int64" :> DeclaredRange(name)
  ELSE IF name \in FloatWords \cup {Spelling.double_precision}
  THEN "np.float64" :> EmptyDict
  ELSE "np.str_" :> [bytes |-> 64]

\* C4: every spelling of the alias table, the multi-word ones included,
\* normalizes successfully, to the descriptor of its canonical type.
C4_EverySpellingResolves ==
  (Done /\ Bare /\ given.name \in AliasTableSpellings)
    => result = Ok(CanonicalDescriptor(given.name))

\* C5: an unknown base name with zero, one or two numeric arguments fails
\* with the unknown-type error.
C5_UnknownBaseName ==
  (/\ Done
   /\ given.name \in UnknownNames
   /\ Len(given.args) <= 2
   /\ NumericArgs(given.args))
    => UnknownType(result)

C5_Witness ==
  /\ Done
  /\ given.name = timestamptz
  /\ given.args = << <<"1","1">>, <<"4">> >>
  /\ UnknownType(result)

\* C6: more than two argument tokens fail with the too-many-arguments error,
\* whether or not the base name is recognized.
C6_TooManyArguments ==
  (Done /\ Len(given.args) > 2) => TooManyArguments(result)

C6_Witness ==
  /\ Done
  /\ given.name \in UnknownNames
  /\ Len(given.args) > 2
  /\ ~NumericArgs(given.args)
  /\ TooManyArguments(result)

\* C7: a call returns exactly one descriptor or fails with the unknown-type
\* or the too-many-arguments error, and with no other failure.
C7_OnlyNormalizerErrors ==
  Done => \/ ~Raised(result) /\ Cardinality(DOMAIN result.value) = 1
          \/ UnknownType(result)
          \/ TooManyArguments(result)

\* C9 as claimed: every integer type, smallint as bigint, gets the 64-bit
\* range as its bound.
C9_AlwaysRange64 ==
  (Done /\ Bare /\ given.name \in IntegerFamily)
    => result = Ok("np.int64" :> Range64)

\* C9 amended: smallint and bigint get the same kind np.int64, and the bound
\* is the 64-bit range only for bigint and int8.
C9_SameKindOwnBound ==
  (/\ Done
   /\ given.name \in IntegerFamily
   /\ Len(given.args) <= 2
   /\ NumericArgs(given.args))
    => /\ ~Raised(result)
       /\ DOMAIN result.value = {"np.int64"}
       /\ (result.value["np.int64"] = Range64) <=> (given.name \in BigintWords)

C9_Witness ==
  /\ Done /\ Bare
  /\ given.name = Spelling.smallint
  /\ ~Raised(result)
  /\ DOMAIN result.value = {"np.int64"}
  /\ result.value["np.int64"] # Range64

(***************************************************************************)
(* Respelling a type string.                                               *)
(***************************************************************************)
\* the string with the letter at position i in the other case
ToggleCase(s, i) ==
  [s EXCEPT ![i] = IF IsIn(s[i], UpperLetters) THEN LowerLetters[IndexOf(s[i], UpperLetters)]
                   ELSE IF IsIn(s[i], LowerLetters)
                   THEN UpperLetters[IndexOf(s[i], LowerLetters)]
                   ELSE s[i]]

\* the string with one blank inserted after position p
InsertBlank(s, p) == SubSeq(s, 1, p) \o <<" ">> \o SubSeq(s, p + 1, Len(s))

\* insertion points before the first and after the last character
Around(s) == {0, Len(s)}

\* insertion points between the opening and the closing parenthesis
InsideParentheses(s) ==
  { p \in 1..(Len(s) - 1) :
      /\ \E i \in 1..p : s[i] = "("
      /\ \E i \in (p + 1)..Len(s) : s[i] = ")" }

\* insertion points that touch a delimiter, so that no token is cut in two
BesideDelimiter(s) ==
  { p \in 1..(Len(s) - 1) : s[p] \in Delimiters \/ s[p + 1] \in Delimiters }

\* what a caller can tell of an outcome: the descriptor, or the error raised
Outcome(o) == IF Raised(o) THEN [exc |-> o.exc, site |-> o.site] ELSE o

SameOutcome(s) == Outcome(dtype_converter(s)) = Outcome(result)

C20_ErrorCarriesRawString ==
  (Done /\ (UnknownType(result) \/ TooManyArguments(result)))
    => result.arg = column_dtype

\* C20, amended: both errors carry the type string after case folding; the
\* too-many-arguments error carries the whole lowercased string, the
\* unknown-type error only the lowercased base name, without its arguments.
C20_ErrorCarriesFoldedString ==
  Done => /\ TooManyArguments(result) => result.arg = str_lower(column_dtype)
          /\ UnknownType(result) => result.arg = given.name

C20_Witness ==
  /\ Done
  /\ given.mode = "upper"
  /\ Len(given.args) = 3
  /\ TooManyArguments(result)
  /\ result.arg = str_lower(column_dtype)
  /\ result.arg # column_dtype

\* x is in the list of exactly one entry of the table
InExactlyOne(x, table, lists) ==
  Cardinality({k \in 1..Len(table) : IsIn(x, table[k][lists])}) = 1

\* the categories of category_dtype that hold the numpy dtype
CategoriesOf(npdtype) == {c \in DOMAIN category_dtype : IsIn(npdtype, category_dtype[c])}

\* the four static tables fit together
TablesConsistent ==
  /\ \A s \in AliasTableSpellings : InExactlyOne(s, redshift_dtypes, "equivs")
  /\ \A k \in 1..Len(redshift_dtypes) :
       InExactlyOne(redshift_dtypes[k].repr, mapping_dtypes, "rsdtypes")
  /\ \A k \in 1..Len(mapping_dtypes) :
       Cardinality(CategoriesOf(mapping_dtypes[k].npdtype)) = 1
  /\ \A j \in 1..Len(category_dtype.int_type) :
       category_dtype.int_type[j] \in DOMAIN int_range

\* convert_to_representative of the name get_2args found, or its exception
ResolvedName(split) ==
  IF Raised(split) THEN split ELSE convert_to_representative(FirstKey(split.value))

\* the steps of dtype_converter up to and including alias resolution
AliasResolution == ResolvedName(get_2args(column_dtype))

\* C21: the static tables are mutually consistent (every spelling in exactly
\* one alias class, every canonical name in exactly one list of
\* mapping_dtypes, every numpy dtype of mapping_dtypes in exactly one
\* category, every integer dtype with an int_range entry); hence once alias
\* resolution has succeeded dtype_converter does not raise, the TypeError of
\* convert_to_numpy_dtype never occurs, and the result has exactly one key.
C21_TablesConsistent ==
  /\ TablesConsistent
  /\ (Done /\ ~Raised(AliasResolution))
       => /\ ~Raised(result)
          /\ Cardinality(DOMAIN result.value) = 1
  /\ Done => ~(Raised(result) /\ result.site = "convert_to_numpy_dtype")

C21_Witness ==
  /\ Done
  /\ given.name = Spelling.timestamp
  /\ given.mode = "capital"
  /\ Len(given.args) = 2
  /\ AliasResolution = Ok(Spelling.timestamp)
  /\ ~Raised(result)
  /\ DOMAIN result.value = {"np.str_"}

(***************************************************************************)
(* Properties of CheckTable.__init__.                                      *)
(***************************************************************************)
Loaded == df.loaded

Fails(i) == Raised(dtype_converter(rsdtype_rows[i].data_type))

FirstFailing ==
  CHOOSE i \in 1..Len(rsdtype_rows) : Fails(i) /\ \A j \in 1..(i - 1) : ~Fails(j)

\* C10: the table is loaded only after every column's data_type has been
\* normalized successfully; when a data_type fails, __init__ raises that
\* error and the table is never loaded.
C10_LoadOnlyAfterNormalization ==
  /\ (Loaded \/ pc \in {"read_csv", "constructed"})
       => /\ raised = NoException
          /\ \A i \in 1..Len(rsdtype_rows) :
               /\ ~Fails(i)
               /\ dinfo[i].dtype = dtype_converter(rsdtype_rows[i].data_type).value
  /\ pc = "raised"
       => /\ ~Loaded
          /\ \E i \in 1..Len(rsdtype_rows) : Fails(i)
          /\ raised = dtype_converter(rsdtype_rows[FirstFailing].data_type)
  /\ (\E i \in 1..Len(rsdtype_rows) : Fails(i)) => ~Loaded

C10_Witness ==
  /\ pc = "raised"
  /\ column = 2
  /\ ~Fails(1)
  /\ UnknownType(raised)
  /\ ~Loaded

\* C12: the dtype argument of pd.read_csv gives np.float64 to every column
\* whose kind is np.int64 and its own kind to every other column.
C12_IntegerLoadsAsFloat ==
  Loaded =>
    \A i \in 1..Len(dinfo) :
      df.dtype[i].dtype =
        IF dtypes[i].dtype = "np.int64" THEN "np.float64" ELSE dtypes[i].dtype

(***************************************************************************)
(* Properties of execute_checktable and of the methods of CheckTable.      *)
(***************************************************************************)
Executed == method.name = "execute_checktable"

Called(name) == method.name = name

\* C11: whatever the findings are, execute_checktable in summary mode and in
\* detail mode returns without raising and has written the report to the
\* output file.
C11_ReportAlwaysWritten ==
  Executed => /\ ~Raised(outcome)
              /\ output_file.opened
              /\ output_file.written

\* the canonical kind of column i
Kind(i) == FirstKey(dinfo[i].dtype)

Columns == 1..Len(dinfo)

Rows == 1..Len(rawdata_rows)

\* the field of column i in row r of the raw data file
Field(r, i) == rawdata_rows[r][i]

IsMissing(r, i) == IsNullField(Field(r, i))

\* the raw data file fits the schema: a field of an integer or float column
\* is a numeral or missing
WellTyped ==
  \A i \in Columns :
    Kind(i) # "np.str_" => \A r \in Rows : IsMissing(r, i) \/ IsNumeral(Field(r, i))

\* the order of the names is the order of the columns of the table
InColumnOrder(names) ==
  \A a, b \in 1..Len(names) :
    a < b => \E i, j \in Columns : i < j /\ dinfo[i].name = names[a] /\ dinfo[j].name = names[b]

\* some value of text column i takes more bytes than the declared maxBytes
ByteLengthExceeds(i) ==
  \E r \in Rows : ~IsMissing(r, i) /\ utf8_len(Field(r, i)) > dinfo[i].dtype["np.str_"].bytes

\* C13: size_error() lists a text-kind column if and only if the maximum
\* UTF-8 byte length of its non-null values is strictly greater than its
\* declared maxBytes.
C13_TextOverMaxBytes ==
  (Called("size_error") /\ WellTyped) =>
    /\ ~Raised(outcome)
    /\ \A i \in Columns :
         Kind(i) = "np.str_" => (IsIn(dinfo[i].name, outcome.value) <=> ByteLengthExceeds(i))

\* some value of integer column i is, in absolute value, above the declared max
AbsExceeds(i) ==
  \E r \in Rows :
    /\ ~IsMissing(r, i)
    /\ GreaterThanLit(Abs(NumeralValue(Field(r, i))), dinfo[i].dtype["np.int64"].max)

\* C14: size_error() lists an integer-kind column if and only if the maximum
\* absolute value of its non-null cells is strictly greater than the max of
\* its declared width; it never lists a float-kind column; the names are in
\* table column order.
C14_IntegerOverMax ==
  (Called("size_error") /\ WellTyped) =>
    \A i \in Columns :
      /\ Kind(i) = "np.int64" =>
           /\ ~Raised(outcome)
           /\ IsIn(dinfo[i].name, outcome.value) <=> AbsExceeds(i)
           /\ InColumnOrder(outcome.value)
      /\ Kind(i) = "np.float64" =>
           /\ ~Raised(outcome)
           /\ ~IsIn(dinfo[i].name, outcome.value)

ValuesOf(i) == {r \in Rows : ~IsMissing(r, i)}

\* the entry the claim gives column i
ExpectedSize(i) ==
  IF Kind(i) = "np.int64"
  THEN SeriesMax({Abs(NumeralValue(Field(r, i))) : r \in ValuesOf(i)})
  ELSE IF Kind(i) = "np.str_"
  THEN SeriesMax({utf8_len(Field(r, i)) : r \in ValuesOf(i)})
  ELSE None

\* C15: max_sizes() has exactly one entry per table column: for an integer
\* column the maximum absolute value of its non-null cells, or NaN when every
\* cell is null; for a text column the maximum UTF-8 byte length of its
\* non-null cells; for a float column None.
C15_MaxSizesEntries ==
  (Called("max_sizes") /\ WellTyped) =>
    /\ ~Raised(outcome)
    /\ Len(outcome.value) = Len(dinfo)
    /\ \A i \in Columns :
         /\ outcome.value[i].name = dinfo[i].name
         /\ outcome.value[i].value = ExpectedSize(i)

\* the columns whose row of the rsdtype file sets the not-null flag
NotNullColumns == {i \in Columns : rsdtype_rows[i].not_null_constraint = 1}

\* the number of null cells of column i
NullCount(i) == Cardinality({r \in Rows : IsMissing(r, i)})

Keys(entries) == {entries[k].name : k \in 1..Len(entries)}

\* C16: the keys of count_nan() are exactly the columns with the not-null
\* flag, each once, and each value is the number of null cells of its column.
C16_CountNanKeys ==
  Called("count_nan") =>
    /\ ~Raised(outcome)
    /\ Keys(outcome.value) = {dinfo[i].name : i \in NotNullColumns}
    /\ Len(outcome.value) = Cardinality(NotNullColumns)
    /\ \A k \in 1..Len(outcome.value) :
         \A i \in Columns :
           dinfo[i].name = outcome.value[k].name => outcome.value[k].value = NullCount(i)

C16_Witness ==
  /\ Called("count_nan")
  /\ Len(dinfo) = 2
  /\ NotNullColumns = {2}
  /\ NullCount(1) = 2
  /\ NullCount(2) = 1
  /\ outcome = Ok(<<[name |-> "hex", value |-> 1]>>)

\* C17: not_null_constraint_error() returns, in table column order, exactly
\* the columns that have the not-null flag and at least one null cell.
C17_FlaggedWithNull ==
  Called("not_null_constraint_error") =>
    /\ ~Raised(outcome)
    /\ \A i \in Columns :
         IsIn(dinfo[i].name, outcome.value) <=> (i \in NotNullColumns /\ NullCount(i) > 0)
    /\ InColumnOrder(outcome.value)

C17_Witness ==
  /\ Called("not_null_constraint_error")
  /\ Len(dinfo) = 2
  /\ NotNullColumns = {1, 2}
  /\ NullCount(1) = 0
  /\ NullCount(2) = 1
  /\ outcome = Ok(<<"hex">>)

\* the columns whose row of the rsdtype file sets the superkey flag
SuperkeyColumns == {i \in Columns : rsdtype_rows[i].pk = 1}

\* the values of row r over the superkey columns
KeyTuple(r) == [i \in SuperkeyColumns |-> Field(r, i)]

DistinctKeyTuples == Cardinality({KeyTuple(r) : r \in Rows})

\* C18: with at least one superkey column, superkey_error() is True if and
\* only if the number of distinct value-tuples over the superkey columns is
\* strictly less than the row count.
C18_DuplicateKeyTuple ==
  (Called("superkey_error") /\ SuperkeyColumns # {}) =>
    outcome = Ok(DistinctKeyTuples < Len(rawdata_rows))

C18_Witness ==
  /\ Called("superkey_error")
  /\ SuperkeyColumns = {1, 2}
  /\ Len(rawdata_rows) = 2
  /\ Field(1, 1) = Field(2, 1)
  /\ Field(1, 2) # Field(2, 2)
  /\ outcome = Ok(FALSE)

\* C19: without a superkey column, superkey_error() is False when the table
\* has at most one row and True when it has two or more rows.
C19_EmptySuperkey ==
  (Called("superkey_error") /\ SuperkeyColumns = {}) =>
    outcome = Ok(Len(rawdata_rows) >= 2)

\* column i has a row and every cell of it is null
AllNull(i) == Rows # {} /\ \A r \in Rows : IsMissing(r, i)

\* the call raised while it was working on column i
RaisedOn(i) == Raised(outcome) /\ outcome.arg = dinfo[i].name

\* C22: a column whose cells are all null has the max size NaN, whatever its
\* declared text or integer bound, and is never listed by size_error();
\* neither max_sizes() nor size_error() raises on such a column.
C22_AllNullNeverListed ==
  /\ (Called("max_sizes") /\ WellTyped) =>
       \A i \in Columns :
         (AllNull(i) /\ Kind(i) \in {"np.str_", "np.int64"}) =>
           /\ ~RaisedOn(i)
           /\ ~Raised(outcome) => outcome.value[i].value = nan
  /\ (Called("size_error") /\ WellTyped) =>
       \A i \in Columns :
         AllNull(i) =>
           /\ ~RaisedOn(i)
           /\ ~Raised(outcome) => ~IsIn(dinfo[i].name, outcome.value)

====
